---- MODULE Spec2Model ----
(***************************************************************************)
(* A model of unimoddb.UnimodDB (src/unimoddb/unimoddb.py): the SQLite     *)
(* store built once from the Unimod XML feed, the reuse decision taken in  *)
(* __init__, the lookups and their functools.lru_cache memoization.        *)
(*                                                                         *)
(* Conventions.  A Python str is a sequence of one-character strings, so   *)
(* that str.lower and the composition regex are computed character by      *)
(* character.  A mass (a float in the code) is an integer number of mass   *)
(* units; only comparisons and mass -/+ tol are performed on it.  The      *)
(* outcome of a call is Return(v) or Raise(exception class name).          *)
(***************************************************************************)
EXTENDS Integers, Sequences, FiniteSets, TLC

VARIABLES
    feedFiles,  \* the XML feeds on disk: file name -> sequence of <mod> elements
    db,         \* committed content of every database: store key -> tables
    inst,       \* per UnimodDB object: life-cycle state and constructor data
    pending,    \* per connection: rows inserted but not yet committed
    cache,      \* per decorated method: the lru_cache, least recently used first
    recency,    \* history: per method, keys that ever returned, least recent first
    last,       \* the last public call: who, what, outcome, served from cache?
    callsLeft,  \* number of public calls the behaviour may still make
    nLoads      \* history: per store, how many times _initialize ran on it

vars == <<feedFiles, db, inst, pending, cache, recency, last, callsLeft, nLoads>>

----------------------------------------------------------------------------
(* Bounds of the model *)

\* Number of public lookups made in one behaviour of Spec.
MaxCalls == 4
\* Entries one lru_cache holds.  functools.lru_cache() defaults to
\* maxsize=128 (lines 160, 179, 209 and 233 pass no argument); the
\* model keeps the eviction rule and scales the capacity down.
CacheMaxSize == 2
\* Number of <mod> elements in an enumerated feed (SpecQuery).
MaxFeedLen == 2
\* Length of an enumerated composition string (SpecFormula).
MaxLen == 4

\* The UnimodDB objects of a behaviour: a first one and a second one, which
\* may share a database file or not.
Instances == {1, 2}

----------------------------------------------------------------------------
(* Outcomes *)

Return(v) == [exc |-> "none", val |-> v]
Raise(e)  == [exc |-> e]
NotFound  == Raise("ModificationNotFoundException")
Returned(r) == r.exc = "none"

----------------------------------------------------------------------------
(* Strings *)

\* str.lower(), on the letters the model uses (every other character is
\* its own lower case).
LowerChar(c) ==
    CASE c = "A" -> "a"
      [] c = "B" -> "b"
      [] c = "C" -> "c"
      [] c = "H" -> "h"
      [] c = "N" -> "n"
      [] c = "O" -> "o"
      [] c = "S" -> "s"
      [] OTHER   -> c

lower(s) == [k \in 1..Len(s) |-> LowerChar(s[k])]

\* Minimum of a non-empty set of integers.
Min(S) == CHOOSE x \in S : \A y \in S : x <= y

\* The first row a SELECT without ORDER BY yields: mods is a rowid table
\* whose rowid is mod_id (INTEGER PRIMARY KEY, line 83), and name_index and
\* full_name_index order equal keys by rowid, so cursor.fetchone() returns
\* the matching row of least mod_id.
fetchone(rows) == CHOOSE r \in rows : r.mod_id = Min({q.mod_id : q \in rows})

----------------------------------------------------------------------------
(* The feed and the Loader *)

\* Python's None, for an optional str argument: <<>> is None, <<s>> is s.
None == <<>>
Some(s) == <<s>>

\* A <mod> element e of the feed carries record_id, title, full_name, the
\* <delta> attributes mono_mass, avge_mass and composition, its list of
\* <specificity> children, and e.missing: the attributes it lacks.
\* Evaluating the INSERT's arguments (lines 111-116) raises when <delta> is
\* absent (delta.get on None), full_name is absent (None.replace) or a
\* mass is absent (float(None)).
RequiredAttrs == {"delta", "full_name", "mono_mass", "avge_mass"}

\* The mods row of element e (lines 111-116): '' '' is the empty string, so
\* replace('' '', '') changes nothing and full_name is only lower-cased.
ModsRow(e) ==
    [mod_id      |-> e.record_id,
     name        |-> e.title,
     full_name   |-> lower(e.full_name),
     mono_mass   |-> e.mono_mass,
     avg_mass    |-> e.avge_mass,
     composition |-> e.composition]

\* The mod_sites rows of element e, in document order (lines 118-125).
SiteRows(e) ==
    [k \in 1..Len(e.specificity) |->
        [mod_id         |-> e.record_id,
         site           |-> e.specificity[k].site,
         classification |-> e.specificity[k].classification]]

\* Whether inserting element e raises: a missing required attribute, or a
\* mod_id already in the table (sqlite3.IntegrityError on the PRIMARY KEY).
InsertRaises(e, mods) ==
    \/ e.missing \cap RequiredAttrs # {}
    \/ \E r \in mods : r.mod_id = e.record_id

\* The loop of _initialize over the feed from element k on (lines 101-125).
\* tx is the open transaction: the rows inserted so far and whether an
\* exception left the loop.
RECURSIVE iterparse(_, _, _)
iterparse(feed, k, tx) ==
    IF k > Len(feed) THEN tx
    ELSE IF InsertRaises(feed[k], tx.mods) THEN [tx EXCEPT !.raised = TRUE]
    ELSE iterparse(feed, k + 1,
                   [tx EXCEPT !.mods  = @ \cup {ModsRow(feed[k])},
                              !.sites = @ \o SiteRows(feed[k])])

NoRows == [mods |-> {}, sites |-> <<>>]

\* What conn.commit() does to the rows (tx) a connection has pending on the
\* committed tables (tbl): they become durable.
Commit(tbl, tx) ==
    [tbl EXCEPT !.mods = @ \cup tx.mods, !.sites = @ \o tx.sites]

\* A Loader that returns without committing.
NoFinalCommit(tbl, tx) == [tables |-> tbl, pend |-> tx]

\* The final conn.commit() of _initialize (line 127): the committed tables
\* and the connection's pending rows after it.
FinalCommit(tbl, tx) == [tables |-> Commit(tbl, tx), pend |-> NoRows]

\* _initialize on the committed tables tbl (lines 75-127).  CREATE TABLE
\* raises when mods exists already and nothing changes.  Otherwise the
\* CREATE statements run outside any transaction and are durable at once;
\* the INSERTs open a transaction that only the commit on line 127 ends.
\* An exception leaves the loop before that commit: the rows inserted so
\* far stay pending on the connection.
_initialize(tbl, feed) ==
    LET tx      == iterparse(feed, 1, [mods |-> {}, sites |-> <<>>, raised |-> FALSE])
        created == [hasTable |-> TRUE, mods |-> {}, sites |-> <<>>]
        rows    == [mods |-> tx.mods, sites |-> tx.sites]
    IN  IF tbl.hasTable
        THEN [tables |-> tbl, pend |-> NoRows, raised |-> TRUE]
        ELSE IF tx.raised
        THEN [tables |-> created, pend |-> rows, raised |-> TRUE]
        ELSE [tables |-> FinalCommit(created, rows).tables,
              pend   |-> FinalCommit(created, rows).pend,
              raised |-> FALSE]

\* A check that never finds the table.
AlwaysMissing(tbl) == TRUE

\* The check of __init__ (lines 60-63): no row of sqlite_master names mods.
TableMissing(tbl) == ~tbl.hasTable

----------------------------------------------------------------------------
(* The lookups, as functions of the rows a connection sees *)

\* _get_mass_col (lines 318-338).
_get_mass_col(mass_type) ==
    CASE mass_type = "mono" -> Return("mono_mass")
      [] mass_type = "avg"  -> Return("avg_mass")
      [] OTHER              -> Raise("ValueError")

\* A resolution that asks for the full name first.
FullNameFirst(v, name) ==
    LET byName == {r \in v.mods : r.name = name}
        byFull == {r \in v.mods : r.full_name = lower(name)}
    IN  IF byFull # {} THEN Return(fetchone(byFull))
        ELSE IF byName # {} THEN Return(fetchone(byName))
        ELSE NotFound

\* _get_row_by_name (lines 129-158): name first, then lower-cased full name.
_get_row_by_name(v, name) ==
    LET byName == {r \in v.mods : r.name = name}
        byFull == {r \in v.mods : r.full_name = lower(name)}
    IN  IF byName # {} THEN Return(fetchone(byName))
        ELSE IF byFull # {} THEN Return(fetchone(byFull))
        ELSE NotFound

\* get_mass (line 177): the row is resolved before the column is.
get_mass(v, name, mass_type) ==
    LET row == _get_row_by_name(v, name)
        col == _get_mass_col(mass_type)
    IN  IF ~Returned(row) THEN row
        ELSE IF ~Returned(col) THEN col
        ELSE Return(row.val[col.val])

\* get_by_id (lines 196-207): the column is resolved while the query text
\* is built, before the query runs.
get_by_id(v, ptm_id, mass_type) ==
    LET col  == _get_mass_col(mass_type)
        rows == {r \in v.mods : r.mod_id = ptm_id}
    IN  IF ~Returned(col) THEN col
        ELSE IF rows = {} THEN NotFound
        ELSE Return(<<fetchone(rows).name, fetchone(rows)[col.val]>>)

\* get_name (lines 255-265).
get_name(v, mass, mass_type, tol) ==
    LET col  == _get_mass_col(mass_type)
        rows == {r \in v.mods : /\ mass - tol <= r[col.val]
                                /\ r[col.val] <= mass + tol}
    IN  IF ~Returned(col) THEN col
        ELSE IF rows = {} THEN NotFound
        ELSE Return(fetchone(rows).name)

\* The character classes of formula_regex (line 31): \w and [0-9-].
Digits == {"0", "1", "2", "3", "4", "5", "6", "7", "8", "9"}
Letters == {"A", "B", "C", "H", "N", "O", "S", "a", "b", "c", "h", "n", "o", "s"}
WordChars == Letters \cup Digits \cup {"_"}
CountChars == Digits \cup {"-"}

\* The index after the longest run of characters of cls that starts at p.
RECURSIVE RunEnd(_, _, _)
RunEnd(s, p, cls) ==
    IF p <= Len(s) /\ s[p] \in cls THEN RunEnd(s, p + 1, cls) ELSE p

\* formula_regex.findall(s) from index p on: (\w+)\(?([0-9-]+)?\)? .
\* Every part after \w+ is optional, so the greedy choice at each part
\* matches and no backtracking happens; where no \w starts a match the
\* scan moves on by one character.
RECURSIVE findall(_, _)
findall(s, p) ==
    IF p > Len(s) THEN <<>>
    ELSE IF s[p] \notin WordChars THEN findall(s, p + 1)
    ELSE LET e1 == RunEnd(s, p, WordChars)
             e2 == IF e1 <= Len(s) /\ s[e1] = "(" THEN e1 + 1 ELSE e1
             e3 == RunEnd(s, e2, CountChars)
             e4 == IF e3 <= Len(s) /\ s[e3] = ")" THEN e3 + 1 ELSE e3
         IN  <<[k |-> SubSeq(s, p, e1 - 1), v |-> SubSeq(s, e2, e3 - 1)]>>
                 \o findall(s, e4)

DigitVal(c) ==
    CASE c = "0" -> 0 [] c = "1" -> 1 [] c = "2" -> 2 [] c = "3" -> 3
      [] c = "4" -> 4 [] c = "5" -> 5 [] c = "6" -> 6 [] c = "7" -> 7
      [] c = "8" -> 8 [] c = "9" -> 9

RECURSIVE DecVal(_)
DecVal(d) ==
    IF d = <<>> THEN 0
    ELSE 10 * DecVal(SubSeq(d, 1, Len(d) - 1)) + DigitVal(d[Len(d)])

AllDigits(d) == d # <<>> /\ \A k \in 1..Len(d) : d[k] \in Digits

\* Python's int(v) on a non-empty string of digits and '-': an optional
\* leading '-' and at least one digit, or ValueError.
int(v) ==
    IF AllDigits(v) THEN Return(DecVal(v))
    ELSE IF v[1] = "-" /\ AllDigits(Tail(v)) THEN Return(0 - DecVal(Tail(v)))
    ELSE Raise("ValueError")

\* The count of one token (line 229): int(v) if v else 1.
TokenCount(t) == IF t.v # <<>> THEN int(t.v) ELSE Return(1)

\* The dict comprehension of get_formula (lines 228-231): a later token
\* replaces an earlier one with the same key; an int() that raises ends
\* the call.
ParseComposition(comp) ==
    LET toks == findall(comp, 1)
        keys == {toks[j].k : j \in 1..Len(toks)}
        lastOf(key) == CHOOSE j \in 1..Len(toks) :
                          /\ toks[j].k = key
                          /\ \A m \in (j + 1)..Len(toks) : toks[m].k # key
    IN  IF \E j \in 1..Len(toks) : ~Returned(TokenCount(toks[j]))
        THEN Raise("ValueError")
        ELSE Return([key \in keys |-> TokenCount(toks[lastOf(key)]).val])

\* get_formula (lines 225-231).
get_formula(v, name) ==
    LET row == _get_row_by_name(v, name)
    IN  IF ~Returned(row) THEN row
        ELSE ParseComposition(row.val.composition)

\* The value of the double-quoted token in  classification = "{filter_class}"
\* (line 290) for the joined row of mod_sites row s.  SQLite reads a
\* double-quoted token as a column name when a column has that name, and as
\* a string literal only otherwise.
DoubleQuoted(s, token) ==
    CASE token = "site"           -> s.site
      [] token = "classification" -> s.classification
      [] OTHER                    -> token

\* The WHERE clause of get_mods (lines 289-290).
Where(s, filter_class) ==
    \/ filter_class = None
    \/ /\ filter_class # None
       /\ s.classification = DoubleQuoted(s, filter_class[1])

\* A finite set of integers as an increasing sequence.
RECURSIVE Ascending(_)
Ascending(S) ==
    IF S = {} THEN <<>> ELSE <<Min(S)>> \o Ascending(S \ {Min(S)})

\* get_mods (lines 286-297).  The join scans mod_sites in insertion order
\* and looks each mods row up by rowid; sites are appended under the key
\* (name, mass) in that order.
get_mods(v, mass_type, filter_class) ==
    LET col == _get_mass_col(mass_type)
        modOf(k) == CHOOSE r \in v.mods : r.mod_id = v.sites[k].mod_id
        idx == {k \in 1..Len(v.sites) :
                   /\ \E r \in v.mods : r.mod_id = v.sites[k].mod_id
                   /\ Where(v.sites[k], filter_class)}
        keyOf(k) == <<modOf(k).name, modOf(k)[col.val]>>
        keys == {keyOf(k) : k \in idx}
        sitesOf(key) ==
            LET ks == Ascending({k \in idx : keyOf(k) = key})
            IN  [j \in 1..Len(ks) |-> v.sites[ks[j]].site]
    IN  IF ~Returned(col) THEN col
        ELSE Return([key \in keys |-> sitesOf(key)])

\* get_ptms (lines 313-316).
get_ptms(v, mass_type) == get_mods(v, mass_type, Some("Post-translational"))

----------------------------------------------------------------------------
(* Databases, connections and objects *)

\* db_file: a path of a database file, or ':memory:' (the default), which
\* gives every connection a database of its own.
MemoryLoc == ":memory:"
DurableLocs == {"unimod.db"}
Locations == DurableLocs \cup {MemoryLoc}

StoreOf(i, loc) == IF loc = MemoryLoc THEN <<MemoryLoc, i>> ELSE <<loc, 0>>
DurableStores == {<<f, 0>> : f \in DurableLocs}
Stores == DurableStores \cup {<<MemoryLoc, i>> : i \in Instances}

NoTables == [hasTable |-> FALSE, mods |-> {}, sites |-> <<>>]

\* The rows the connection of object i reads: the committed ones and the
\* ones it has itself inserted and not yet committed.
View(i) ==
    LET tbl == db[StoreOf(i, inst[i].loc)]
    IN  [mods  |-> tbl.mods \cup pending[i].mods,
         sites |-> tbl.sites \o pending[i].sites]

\* st: "none" before construction, "live" once __init__ returned, "failed"
\* once it raised, "closed" after __del__.  loadRan: __init__ called
\* _initialize.  sawTable: the check of __init__ found the mods table.
\* raised: __init__ raised.
NotConstructed ==
    [st |-> "none", loc |-> MemoryLoc, xml |-> "", loadRan |-> FALSE,
     sawTable |-> FALSE, raised |-> FALSE]

\* UnimodDB(unmod_xml_file=xml, db_file=loc) for the object i (lines 33-64).
\* An exception of _initialize leaves __init__: the caller gets no object,
\* and the half-built one ("failed") lives until it is finalized.
Construct(i, xml, loc) ==
    LET key == StoreOf(i, loc)
        ld  == _initialize(db[key], feedFiles[xml])
    IN  /\ inst[i].st = "none"
        /\ \A j \in Instances : j < i => inst[j].st # "none"
        /\ IF TableMissing(db[key])
           THEN /\ db' = [db EXCEPT ![key] = ld.tables]
                /\ pending' = [pending EXCEPT ![i] = ld.pend]
                /\ inst' = [inst EXCEPT ![i] =
                      [st |-> IF ld.raised THEN "failed" ELSE "live",
                       loc |-> loc, xml |-> xml, loadRan |-> TRUE,
                       sawTable |-> db[key].hasTable, raised |-> ld.raised]]
                /\ nLoads' = [nLoads EXCEPT ![key] = @ + 1]
           ELSE /\ inst' = [inst EXCEPT ![i] =
                      [st |-> "live", loc |-> loc, xml |-> xml,
                       loadRan |-> FALSE, sawTable |-> db[key].hasTable,
                       raised |-> FALSE]]
                /\ UNCHANGED <<db, pending, nLoads>>
        /\ UNCHANGED <<feedFiles, cache, recency, last, callsLeft>>

\* Whether an lru_cache holds a key made of object i: the cache is an
\* attribute of the function, shared by all objects, and its keys hold
\* strong references to self.
Referenced(i) ==
    \E op \in DOMAIN cache : \E k \in 1..Len(cache[op]) : cache[op][k].key[1] = i

\* A finalizer that closes the connection without committing: SQLite
\* rolls the open transaction back.
CloseWithoutCommit(tbl, tx) == tbl

\* What __del__ (lines 72-73) leaves of the rows pending on the connection
\* in the committed tables tbl: conn.commit() makes them durable.
Finalize(tbl, tx) == Commit(tbl, tx)

\* __del__ of object i, when nothing refers to it any more: a half-built
\* object once its exception is gone, a live one once the caller has dropped
\* it and no cache entry holds it.
Del(i) ==
    /\ inst[i].st \in {"live", "failed"}
    /\ ~Referenced(i)
    /\ db' = [db EXCEPT ![StoreOf(i, inst[i].loc)] = Finalize(@, pending[i])]
    /\ pending' = [pending EXCEPT ![i] = NoRows]
    /\ inst' = [inst EXCEPT ![i].st = "closed"]
    /\ UNCHANGED <<feedFiles, cache, recency, last, callsLeft, nLoads>>

----------------------------------------------------------------------------
(* The public calls and their memoization *)

\* The methods decorated with functools.lru_cache() (lines 160, 179, 209,
\* 233); get_mods and get_ptms are not.
CachedOps == {"get_mass", "get_by_id", "get_formula", "get_name"}
PublicOps == CachedOps \cup {"get_mods", "get_ptms"}

\* The body of method op on the rows v with the arguments args.
Eval(op, v, args) ==
    CASE op = "get_mass"    -> get_mass(v, args[1], args[2])
      [] op = "get_by_id"   -> get_by_id(v, args[1], args[2])
      [] op = "get_formula" -> get_formula(v, args[1])
      [] op = "get_name"    -> get_name(v, args[1], args[2], args[3])
      [] op = "get_mods"    -> get_mods(v, args[1], args[2])
      [] op = "get_ptms"    -> get_ptms(v, args[1])

\* A key that leaves self out: every object shares the entries.
KeyWithoutSelf(self, args) == <<1, args>>

\* The key lru_cache makes of a call: the positional arguments, self first.
CacheKey(self, args) == <<self, args>>

\* A cache hit moves the entry to the most recently used end.
CacheHit(c, k) == SubSeq(c, 1, k - 1) \o SubSeq(c, k + 1, Len(c)) \o <<c[k]>>

\* A store that evicts one entry too early.
CacheStoreOneLess(c, key, val) ==
    LET grown == c \o <<[key |-> key, val |-> val]>>
    IN  IF Len(grown) >= CacheMaxSize THEN Tail(grown) ELSE grown

\* A miss whose call returned stores the result, and drops the least
\* recently used entry when the cache is full.
CacheStore(c, key, val) ==
    LET grown == c \o <<[key |-> key, val |-> val]>>
    IN  IF Len(grown) > CacheMaxSize THEN Tail(grown) ELSE grown

\* The entries of the history q other than the one of key.
RECURSIVE Without(_, _)
Without(q, key) ==
    IF q = <<>> THEN <<>>
    ELSE IF Head(q).key = key THEN Without(Tail(q), key)
    ELSE <<Head(q)>> \o Without(Tail(q), key)

\* What the call  i.op(*args)  answers in the current state: a decorated
\* method answers from the cache when the key is there; else the body runs
\* against the store.
Answer(i, c) ==
    LET key   == CacheKey(i, c.args)
        found == IF c.op \in CachedOps
                 THEN {k \in 1..Len(cache[c.op]) : cache[c.op][k].key = key}
                 ELSE {}
    IN  IF found # {}
        THEN Return(cache[c.op][CHOOSE k \in found : TRUE].val)
        ELSE Eval(c.op, View(i), c.args)

\* The call  i.op(*args)  of a public method on the live object i.  A hit
\* refreshes the entry; a miss whose body returned stores the result, one
\* whose body raised stores nothing.  last.age and last.prior are history:
\* how many other keys of the method returned since this key last did (-1
\* if it never did), and what it returned then.
Call(i, c) ==
    LET key   == CacheKey(i, c.args)
        found == IF c.op \in CachedOps
                 THEN {k \in 1..Len(cache[c.op]) : cache[c.op][k].key = key}
                 ELSE {}
        res   == Answer(i, c)
        seen  == IF c.op \in CachedOps
                 THEN {k \in 1..Len(recency[c.op]) : recency[c.op][k].key = key}
                 ELSE {}
        at    == CHOOSE k \in seen : TRUE
    IN  /\ inst[i].st = "live"
        /\ callsLeft > 0
        /\ callsLeft' = callsLeft - 1
        /\ last' = [self |-> i, op |-> c.op, args |-> c.args, result |-> res,
                    hit |-> found # {},
                    age |-> IF seen = {} THEN 0 - 1 ELSE Len(recency[c.op]) - at,
                    prior |-> IF seen = {} THEN Raise("") ELSE Return(recency[c.op][at].val)]
        /\ cache' =
              IF found # {}
              THEN [cache EXCEPT ![c.op] = CacheHit(@, CHOOSE k \in found : TRUE)]
              ELSE IF c.op \in CachedOps /\ Returned(res)
              THEN [cache EXCEPT ![c.op] = CacheStore(@, key, res.val)]
              ELSE cache
        /\ recency' =
              IF c.op \in CachedOps /\ Returned(res)
              THEN [recency EXCEPT ![c.op] =
                      Without(@, key) \o <<[key |-> key, val |-> res.val]>>]
              ELSE recency
        /\ UNCHANGED <<feedFiles, db, inst, pending, nLoads>>

NoCall ==
    [self |-> 0, op |-> "", args |-> <<>>, result |-> Raise(""), hit |-> FALSE,
     age |-> 0 - 1, prior |-> Raise("")]

\* Strings of the model, as sequences of characters.
Str1(a) == <<a>>

\* A <mod> element with every attribute present.
Mod(id, title, full, mono, avge, comp, spec) ==
    [record_id |-> id, title |-> title, full_name |-> full, mono_mass |-> mono,
     avge_mass |-> avge, composition |-> comp, specificity |-> spec,
     missing |-> {}]

Site(s, c) == [site |-> s, classification |-> c]

\* The feeds of Spec.  unimod.xml: "A" is the full name of record 1 and,
\* lower-cased, the short name of record 2.  other.xml gives the same short
\* name another mass.  broken.xml: its second element lacks full_name.
MainFeeds ==
    [f \in {"unimod.xml", "other.xml", "broken.xml"} |->
        CASE f = "unimod.xml" ->
               << Mod(1, Str1("N"), Str1("A"), 10, 15, <<"H", "(", "2", ")">>,
                      <<Site("C", "Post-translational")>>),
                  Mod(2, Str1("a"), Str1("c"), 11, 16, <<"O">>,
                      <<Site("K", "Artefact")>>) >>
          [] f = "other.xml" ->
               << Mod(1, Str1("a"), Str1("b"), 20, 25, <<"H">>, <<>>) >>
          [] f = "broken.xml" ->
               << Mod(1, Str1("a"), Str1("A"), 30, 35, <<"N">>,
                      <<Site("S", "Post-translational")>>),
                  [Mod(2, Str1("N"), Str1("c"), 31, 36, <<"O">>, <<>>)
                      EXCEPT !.missing = {"full_name"}],
                  Mod(3, Str1("b"), Str1("b"), 32, 37, <<"O">>, <<>>) >>]

\* The calls of Spec: each decorated method, the full-name fallback, and the
\* bulk extraction.
MainCalls ==
    { [op |-> "get_mass",    args |-> <<Str1("a"), "mono">>],
      [op |-> "get_mass",    args |-> <<Str1("A"), "mono">>],
      [op |-> "get_by_id",   args |-> <<1, "mono">>],
      [op |-> "get_formula", args |-> <<Str1("a")>>],
      [op |-> "get_name",    args |-> <<10, "mono", 1>>],
      [op |-> "get_ptms",    args |-> <<"mono">>] }

InitCommon ==
    /\ db = [k \in Stores |-> NoTables]
    /\ inst = [i \in Instances |-> NotConstructed]
    /\ pending = [i \in Instances |-> NoRows]
    /\ cache = [op \in CachedOps |-> <<>>]
    /\ recency = [op \in CachedOps |-> <<>>]
    /\ last = NoCall
    /\ nLoads = [k \in Stores |-> 0]

Init ==
    /\ feedFiles = MainFeeds
    /\ callsLeft = MaxCalls
    /\ InitCommon

Next ==
    \/ \E i \in Instances, xml \in DOMAIN feedFiles, loc \in Locations :
          Construct(i, xml, loc)
    \/ \E i \in Instances : Del(i)
    \/ \E i \in Instances, c \in MainCalls : Call(i, c)

Spec == Init /\ [][Next]_vars

----------------------------------------------------------------------------
(* Properties of Spec *)

SameDurable(i, j) ==
    /\ i # j
    /\ inst[i].st # "none" /\ inst[j].st # "none"
    /\ inst[i].loc \in DurableLocs /\ inst[i].loc = inst[j].loc

\* C1: over any sequence of constructions, _initialize runs in a
\* construction exactly when its check finds no mods table, and on one
\* database file it runs at most once, whatever is constructed later.
C1_LoaderOnlyWithoutTable ==
    /\ \A i \in Instances :
          inst[i].st # "none" => (inst[i].loadRan <=> ~inst[i].sawTable)
    /\ \A k \in DurableStores : nLoads[k] <= 1

\* C1 happens: the first object built and populated the file, the second
\* was constructed on it and did not load.
C1_Witness ==
    \E i, j \in Instances :
        /\ SameDurable(i, j)
        /\ inst[i].loadRan /\ ~inst[i].raised
        /\ inst[j].st = "live" /\ ~inst[j].loadRan
        /\ db[StoreOf(i, inst[i].loc)].mods # {}

\* The calls compared between two objects: those of Spec, an unknown name,
\* an unknown identifier, a mass no record has, a bad mass_type and the
\* bulk extraction with and without a filter.
ComparedCalls ==
    MainCalls \cup
    { [op |-> "get_mass",    args |-> <<Str1("b"), "mono">>],
      [op |-> "get_mass",    args |-> <<Str1("a"), "avg">>],
      [op |-> "get_mass",    args |-> <<Str1("a"), "other">>],
      [op |-> "get_by_id",   args |-> <<2, "avg">>],
      [op |-> "get_by_id",   args |-> <<3, "mono">>],
      [op |-> "get_formula", args |-> <<Str1("N")>>],
      [op |-> "get_name",    args |-> <<30, "mono", 0>>],
      [op |-> "get_name",    args |-> <<99, "avg", 1>>],
      [op |-> "get_mods",    args |-> <<"mono", None>>],
      [op |-> "get_mods",    args |-> <<"avg", Some("Artefact")>>],
      [op |-> "get_ptms",    args |-> <<"avg">>] }

\* C2: two live objects on the same database file answer every lookup
\* alike, result or exception, whichever of them built the store.
C2_SameAnswers ==
    \A i, j \in Instances :
        (SameDurable(i, j) /\ inst[i].st = "live" /\ inst[j].st = "live") =>
            \A c \in ComparedCalls : Answer(i, c) = Answer(j, c)

\* C2 happens: the second object, constructed on the file the first one
\* populated, has answered a lookup with a result.
C2_Witness ==
    \E i, j \in Instances :
        /\ SameDurable(i, j)
        /\ inst[i].st = "live" /\ inst[i].loadRan
        /\ inst[j].st = "live" /\ ~inst[j].loadRan
        /\ last.self = j /\ Returned(last.result)

\* The elements of a feed before the first one whose INSERT raises.
RECURSIVE InsertedBefore(_, _)
InsertedBefore(feed, k) ==
    IF k > Len(feed) THEN {}
    ELSE IF \/ feed[k].missing \cap RequiredAttrs # {}
            \/ \E m \in 1..(k - 1) : feed[m].record_id = feed[k].record_id
    THEN {}
    ELSE {k} \cup InsertedBefore(feed, k + 1)

\* C9: when population of a database file aborts, the schema stays, the
\* rows inserted before the bad record are in the file once the half-built
\* object is finalized (neither rolled back nor completed), and an object
\* constructed on the file later skips the Loader and reads those rows
\* only.
C9_PartialStoreStays ==
    \A i \in Instances :
        (inst[i].raised /\ inst[i].loadRan /\ inst[i].loc \in DurableLocs) =>
            LET k    == StoreOf(i, inst[i].loc)
                feed == feedFiles[inst[i].xml]
                kept == {ModsRow(feed[m]) : m \in InsertedBefore(feed, 1)}
            IN  /\ db[k].hasTable
                /\ Cardinality(kept) < Len(feed)
                /\ inst[i].st = "closed" =>
                      /\ db[k].mods = kept
                      /\ {db[k].sites[m].mod_id : m \in 1..Len(db[k].sites)}
                            \subseteq {r.mod_id : r \in kept}
                /\ \A j \in Instances :
                      (SameDurable(i, j) /\ j # i) =>
                          /\ ~inst[j].loadRan
                          /\ inst[j].st = "live" => View(j).mods \subseteq kept
                          /\ (inst[j].st = "live" /\ inst[i].st = "closed")
                                => View(j).mods = kept

\* C9 happens: population aborted, the half-built object is gone, and a
\* later object on the same file has served a lookup from the partial store.
C9_Witness ==
    \E i, j \in Instances :
        /\ SameDurable(i, j)
        /\ inst[i].raised /\ inst[i].st = "closed"
        /\ inst[j].st = "live" /\ ~inst[j].loadRan
        /\ last.self = j /\ Returned(last.result)
        /\ db[StoreOf(i, inst[i].loc)].mods # {}

\* C6 as stated: once a call of a decorated method has returned, every
\* later call with the same arguments is answered from the cache with that
\* result, however many other lookups came in between.
C6_CachedForever ==
    (last.op \in CachedOps /\ last.age >= 0) =>
        (last.hit /\ last.result = last.prior)

\* C6 amended: ... provided fewer than maxsize other keys of the same
\* method (of any object) have returned since the key last did.
C6_CachedWhileRecent ==
    (last.op \in CachedOps /\ last.age >= 0 /\ last.age < CacheMaxSize) =>
        (last.hit /\ last.result = last.prior)

\* C6 happens: a repeated call was answered from the cache although another
\* lookup of the same method returned in between.
C6_Witness ==
    /\ last.op \in CachedOps
    /\ last.hit /\ last.age >= 1 /\ last.result = last.prior

\* C10: every entry of every cache, and every result a decorated method has
\* just returned, is what the body of the method returns for those
\* arguments on the rows the entry's own object reads.
C10_CacheAgreesWithOwnStore ==
    /\ \A op \in CachedOps : \A k \in 1..Len(cache[op]) :
          LET e == cache[op][k]
          IN  Return(e.val) = Eval(op, View(e.key[1]), e.key[2])
    /\ (last.op \in CachedOps /\ Returned(last.result)) =>
          last.result = Eval(last.op, View(last.self), last.args)

\* C10 happens: one cache holds, for the same arguments, different results
\* of two objects that read different stores, and the last call was a hit.
C10_Witness ==
    \E op \in CachedOps : \E k, m \in 1..Len(cache[op]) :
        /\ cache[op][k].key[1] # cache[op][m].key[1]
        /\ cache[op][k].key[2] = cache[op][m].key[2]
        /\ cache[op][k].val # cache[op][m].val
        /\ last.hit

----------------------------------------------------------------------------
(* SpecNames: the lookups by name, identifier and mass on enumerated feeds *)

\* A feed of n elements; element k has identifier k when asc, n + 1 - k
\* otherwise (the feed need not list its records by identifier).
FeedOf(n, elems, asc) ==
    [k \in 1..n |-> [elems[k] EXCEPT !.record_id = IF asc THEN k ELSE n + 1 - k]]

\* Elements that differ in short name, full name, mass and composition;
\* the second composition has a count that is no integer.
NameElements ==
    { Mod(0, title, full, mono, mono + 5, comp, <<>>) :
        title \in {Str1("a"), Str1("B")}, full \in {Str1("A"), Str1("b")},
        mono \in {10, 11}, comp \in {<<"H", "-", "1">>, <<"H", "-">>} }

\* The feeds of at most len elements drawn from elements, in the orders
\* of identifiers that orders allows.
FeedsUpTo(elements, orders, len) ==
    UNION { { FeedOf(n, elems, asc) :
                elems \in [1..n -> elements], asc \in orders } :
            n \in 0..len }

MassTypes == {"mono", "avg", "other"}
LookupNames == {Str1("a"), Str1("A"), Str1("B"), Str1("b"), Str1("c")}

NameCalls ==
    { [op |-> "get_mass", args |-> <<n, t>>] : n \in LookupNames, t \in MassTypes }
    \cup { [op |-> "get_by_id", args |-> <<id, t>>] : id \in 1..3, t \in MassTypes }
    \cup { [op |-> "get_formula", args |-> <<n>>] : n \in LookupNames }
    \cup { [op |-> "get_name", args |-> <<m, t, tol>>] :
             m \in {9, 10, 12}, t \in MassTypes, tol \in {0, 1} }
    \cup { [op |-> "get_mods", args |-> <<t, None>>] : t \in MassTypes }
    \cup { [op |-> "get_ptms", args |-> <<t>>] : t \in MassTypes }

QueryFile == "q.xml"

InitNames ==
    /\ \E feed \in FeedsUpTo(NameElements, BOOLEAN, MaxFeedLen) : feedFiles = [f \in {QueryFile} |-> feed]
    /\ callsLeft = 1
    /\ InitCommon

NextNames ==
    \/ Construct(1, QueryFile, MemoryLoc)
    \/ \E c \in NameCalls : Call(1, c)

SpecNames == InitNames /\ [][NextNames]_vars

\* The mass_type argument of the last call ("mono" for get_formula, which
\* has none).
LastMassType ==
    CASE last.op \in {"get_mass", "get_by_id"} -> last.args[2]
      [] last.op = "get_name"                  -> last.args[2]
      [] last.op \in {"get_mods", "get_ptms"}  -> last.args[1]
      [] OTHER                                 -> "mono"

MassOf(r, mass_type) == IF mass_type = "mono" THEN r.mono_mass ELSE r.avg_mass

\* The rows that match the last call: by name or lower-cased full name, by
\* identifier, or by mass window.
LastMatching ==
    LET v == View(last.self)
    IN  CASE last.op \in {"get_mass", "get_formula"} ->
               {r \in v.mods : \/ r.name = last.args[1]
                               \/ r.full_name = lower(last.args[1])}
          [] last.op = "get_by_id" ->
               {r \in v.mods : r.mod_id = last.args[1]}
          [] last.op = "get_name" ->
               {r \in v.mods :
                   /\ last.args[1] - last.args[3] <= MassOf(r, last.args[2])
                   /\ MassOf(r, last.args[2]) <= last.args[1] + last.args[3]}

\* Whether the last call returned values taken from row r.
LastTakenFrom(r) ==
    /\ Returned(last.result)
    /\ CASE last.op = "get_mass"  -> last.result.val = MassOf(r, last.args[2])
         [] last.op = "get_by_id" ->
              last.result.val = <<r.name, MassOf(r, last.args[2])>>
         [] last.op = "get_name"  -> last.result.val = r.name
         [] last.op = "get_formula" ->
              \A j \in 1..Len(r.composition) :
                  r.composition[j] \in Letters =>
                      \E key \in DOMAIN last.result.val : key[1] = r.composition[j]

\* C3: with a valid mass_type, a lookup by name, identifier or mass window
\* raises ModificationNotFoundException exactly when no row matches, and
\* otherwise returns values taken from a matching row.
C3_NotFoundIffNoMatch ==
    (last.op \in CachedOps /\ LastMassType \in {"mono", "avg"}) =>
        /\ last.result = NotFound <=> LastMatching = {}
        /\ LastMatching # {} => \E r \in LastMatching : LastTakenFrom(r)

\* C5: every operation that takes mass_type raises ValueError when it is
\* neither 'mono' nor 'avg', whether or not the name, identifier or mass
\* matches a row.
C5_BadMassTypeIsValueError ==
    (last.op \in PublicOps /\ LastMassType \notin {"mono", "avg"}) =>
        last.result = Raise("ValueError")

\* The last call with its name argument replaced by name.
LastByName(name) == Eval(last.op, View(last.self), [last.args EXCEPT ![1] = name])

LastNameRows == {r \in View(last.self).mods : r.name = last.args[1]}
LastFullRows == {r \in View(last.self).mods : r.full_name = lower(last.args[1])}

\* What get_mass or get_formula, called as the last call was, returns when
\* it resolves to row r.
LastValueOf(r) ==
    IF last.op = "get_mass"
    THEN Return(MassOf(r, last.args[2]))
    ELSE ParseComposition(r.composition)

ByNameCall == last.op \in {"get_mass", "get_formula"} /\ LastMassType \in {"mono", "avg"}

\* C4 as stated: the short name is tried first, the lower-cased argument
\* is compared with the stored full name only when no short name matches,
\* and then the lookup returns what the lookup by the short name of the
\* record so found returns.
C4_FullNameSameAsShortName ==
    ByNameCall =>
        /\ LastNameRows # {} => \E r \in LastNameRows : last.result = LastValueOf(r)
        /\ (LastNameRows = {} /\ LastFullRows # {}) =>
              \E r \in LastFullRows :
                  /\ last.result = LastValueOf(r)
                  /\ last.result = LastByName(r.name)

\* C4 amended: ... and then the lookup returns the mass or formula of the
\* record of least mod_id with that full name, which is what the lookup by
\* that record's short name returns unless a record of smaller mod_id has
\* the same short name.
C4_ShortNameFirst ==
    ByNameCall =>
        /\ LastNameRows # {} => \E r \in LastNameRows : last.result = LastValueOf(r)
        /\ (LastNameRows = {} /\ LastFullRows # {}) =>
              \E r \in LastFullRows :
                  /\ \A q \in LastFullRows : r.mod_id <= q.mod_id
                  /\ last.result = LastValueOf(r)
                  /\ (\A q \in View(last.self).mods :
                          q.name = r.name => r.mod_id <= q.mod_id)
                        => last.result = LastByName(r.name)
        /\ (LastNameRows = {} /\ LastFullRows = {}) => last.result = NotFound

\* C4 happens: no short name equals the argument, its lower-cased form is a
\* stored full name, another record's short name equals that lower-cased
\* form, and the lookup returned the mass the short name of the record
\* found gives.
C4_Witness ==
    /\ last.op = "get_mass" /\ LastMassType = "mono"
    /\ LastNameRows = {} /\ LastFullRows # {}
    /\ \E q \in View(last.self).mods : q.name = lower(last.args[1])
    /\ Returned(last.result)
    /\ \E r \in LastFullRows : last.result = LastByName(r.name)

----------------------------------------------------------------------------
(* SpecMods: the bulk extraction on enumerated feeds *)

SiteLists ==
    UNION { [1..n -> { Site(x, c) : x \in {"C", "K"},
                                    c \in {"Post-translational", "Artefact"} }] :
            n \in 0..2 }

\* Elements that differ in short name, mass and sites; two elements may
\* share (name, mass).
ModsElements ==
    { Mod(0, title, Str1("b"), mono, mono + 5, <<"H">>, spec) :
        title \in {Str1("a"), Str1("B")}, mono \in {10, 11}, spec \in SiteLists }

\* filter_class: None, the two classifications of the feeds, one that
\* differs in case only, and two words that are also column names.
FilterClasses ==
    { None, Some("Post-translational"), Some("Artefact"),
      Some("post-translational"), Some("classification"), Some("site") }

ModsCalls ==
    { [op |-> "get_mods", args |-> <<t, fc>>] : t \in MassTypes, fc \in FilterClasses }
    \cup { [op |-> "get_ptms", args |-> <<t>>] : t \in MassTypes }

InitMods ==
    /\ \E feed \in FeedsUpTo(ModsElements, {TRUE}, MaxFeedLen) : feedFiles = [f \in {QueryFile} |-> feed]
    /\ callsLeft = 1
    /\ InitCommon

NextMods ==
    \/ Construct(1, QueryFile, MemoryLoc)
    \/ \E c \in ModsCalls : Call(1, c)

SpecMods == InitMods /\ [][NextMods]_vars

\* The filter of the last call: get_ptms asks for 'Post-translational'.
LastFilter ==
    IF last.op = "get_ptms" THEN Some("Post-translational") ELSE last.args[2]

\* The mod_sites rows, by position, whose classification equals the filter
\* of the last call (every row when it is None) and whose record exists.
LastSiteRows ==
    LET v == View(last.self)
    IN  {k \in 1..Len(v.sites) :
            /\ \E r \in v.mods : r.mod_id = v.sites[k].mod_id
            /\ LastFilter # None => v.sites[k].classification = LastFilter[1]}

LastKeyOf(k) ==
    LET v == View(last.self)
        r == CHOOSE r \in v.mods : r.mod_id = v.sites[k].mod_id
    IN  <<r.name, MassOf(r, LastMassType)>>

\* C7: for a valid mass_type and any filter_class, get_mods returns a
\* mapping whose keys are exactly the (name, mass) pairs of the records
\* with a mod_sites row of that classification, each mapped to the sites of
\* those rows in the order met, none to an empty list; and get_ptms is
\* get_mods with 'Post-translational'.
C7_ModsGroupedByClassification ==
    (last.op \in {"get_mods", "get_ptms"} /\ LastMassType \in {"mono", "avg"}) =>
        /\ Returned(last.result)
        /\ DOMAIN last.result.val = {LastKeyOf(k) : k \in LastSiteRows}
        /\ \A key \in DOMAIN last.result.val :
              LET ks == Ascending({k \in LastSiteRows : LastKeyOf(k) = key})
              IN  /\ last.result.val[key] # <<>>
                  /\ last.result.val[key] =
                        [j \in 1..Len(ks) |-> View(last.self).sites[ks[j]].site]
        /\ last.op = "get_ptms" =>
              last.result = get_mods(View(last.self), last.args[1],
                                     Some("Post-translational"))

----------------------------------------------------------------------------
(* SpecFormula: get_formula on enumerated composition strings *)

CompositionChars == {"H", "O", "(", ")", "-", "1", "2", " "}

\* The strings of at most len characters.
StringsUpTo(len) == UNION { [1..n -> CompositionChars] : n \in 0..len }

FormulaCalls ==
    { [op |-> "get_formula", args |-> <<n>>] : n \in {Str1("a"), Str1("c")} }

InitFormula ==
    /\ \E comp \in StringsUpTo(MaxLen) :
          feedFiles = [f \in {QueryFile} |->
                          << Mod(1, Str1("a"), Str1("b"), 10, 15, comp, <<>>) >>]
    /\ callsLeft = 1
    /\ InitCommon

NextFormula ==
    \/ Construct(1, QueryFile, MemoryLoc)
    \/ \E c \in FormulaCalls : Call(1, c)

SpecFormula == InitFormula /\ [][NextFormula]_vars

\* The composition of the record the last get_formula call resolved to.
LastComposition == fetchone(LastNameRows \cup LastFullRows).composition

\* The tokens of a composition: a symbol and the text of its count.
LastTokens == findall(LastComposition, 1)

\* The signed integer a count text denotes: digits, with '-' in front for a
\* negative count; 1 when there is no count.
SignedCount(text) ==
    IF text = <<>> THEN 1
    ELSE IF text[1] = "-" THEN 0 - DecVal(Tail(text))
    ELSE DecVal(text)

\* C8: get_formula maps every symbol of the composition to its signed
\* integer count, 1 without a count, the last occurrence's count for a
\* repeated symbol; an empty or unparseable composition gives an empty
\* mapping and no error.
C8_FormulaOrEmptyNeverError ==
    (last.op = "get_formula" /\ LastNameRows \cup LastFullRows # {}) =>
        /\ Returned(last.result)
        /\ DOMAIN last.result.val = {LastTokens[j].k : j \in 1..Len(LastTokens)}
        /\ \A j \in 1..Len(LastTokens) :
              (\A m \in (j + 1)..Len(LastTokens) : LastTokens[m].k # LastTokens[j].k)
                  => last.result.val[LastTokens[j].k] = SignedCount(LastTokens[j].v)

====
